---- MODULE Spec2Model ----
(***************************************************************************)
(* Boot, process/thread lifecycle and shutdown sequence of the weenix      *)
(* kernel as driven by kernel/main/kmain.c: kmain -> bootstrap ->          *)
(* idleproc_run -> initproc_run -> shutdown.                               *)
(*                                                                         *)
(* The flows of control are kmain's pre-context environment, the bootstrap *)
(* context and one thread per process.  Each statement (or #ifdef block)   *)
(* of kmain.c is one action; the collaborators that kmain.c calls but that *)
(* live in other files (proc, kthread, sched, vfs) are operators written   *)
(* from their contracts.                                                   *)
(***************************************************************************)
EXTENDS Integers, Sequences, FiniteSets, TLC

(* ----------------------------- bounds --------------------------------- *)
\* the largest __NTERMS__ among the builds, and __NDISKS__ (Config.mk)
NTERMS == 2
NDISKS == 1
\* processes that the user-level init may create beside idle and init
MaxChildren == 1
\* boots of the machine on the same disk
MaxBoots == 2

(* ------------------------ program constants --------------------------- *)
PID_IDLE == 0
PID_INIT == 1
\* errno value returned (negated) by do_waitpid when there is no child
ECHILD == 10
\* exit statuses a process may report
Statuses == {0, 1}

MaxPid == PID_INIT + MaxChildren
Pids == 0..MaxPid
NoPid == -1

\* the builds: each feature of Config.mk includes the ones before it
\* 0: PROCS only, 1: +DRIVERS, 2: +VFS, 3: +S5FS, 4: +VM
Builds == 0..4

VARIABLES
    build,          \* which features the kernel was built with
    GDBWAIT,        \* the build's GDBWAIT setting (Config.mk)
    nterms,         \* the build's __NTERMS__ (Config.mk)
    boots,          \* number of times the machine has booted on this disk
    prev_populated, \* the previous boot completed the /dev population step
    kpc,            \* position of kmain
    kflow,          \* state of kmain's pre-context execution environment
    gdb_wait,       \* kmain's local gdb_wait
    bstack,         \* kmain's local bstack
    bpc,            \* position of bootstrap
    bootstrap_context, \* state of the static bootstrap context
    ipc,            \* position of idleproc_run
    npc,            \* position of initproc_run
    done,           \* initialisation steps that have completed
    procs,          \* the process table
    created,        \* the processes in the order proc_create made them
    next_pid,       \* next identifier of the PID namespace
    kt_state,       \* lifecycle state of each process's thread
    runq,           \* the scheduler's run queue
    curproc,        \* the global curproc
    curthr,         \* the global curthr
    initthr,        \* idleproc_run's local initthr
    child,          \* idleproc_run's local child
    status,         \* idleproc_run's local status
    wait_filter,    \* pid argument of idle's last do_waitpid call
    ii,             \* idleproc_run's loop index
    fd,             \* idleproc_run's local fd, -1 when it holds no descriptor
    nstatus,        \* result of init's do_waitpid in its wait loop
    intr,           \* interrupts are enabled
    panic,          \* message of the kernel panic, "" if none
    halted,         \* the processor executed cli; hlt
    fs,             \* nodes of the filesystem
    vn_refcount,    \* reference count of vfs_root_vn
    vn_refcount0,   \* its value when idleproc_run started
    nfds,           \* open file descriptors per process
    mkdirs,         \* do_mkdir calls of this boot
    mknods,         \* do_mknod calls of this boot
    events,         \* observable shutdown actions of this boot, in order
    rpc,            \* position of the run script, "shell" when not running
    machine,        \* the run script's $machine
    dbgmode,        \* the run script's $dbgmode
    newdisk,        \* the run script's $newdisk is not empty
    disk0_img,      \* the file ./disk0.img
    fix_disk_pl,    \* the file ./fix_disk.pl exists
    qemu_hda,       \* the state of disk0.img the emulator last started on
    rc              \* exit status of the last invocation of the run script

\* the run script's state: no step of the kernel touches it
runvars  == <<rpc, machine, dbgmode, newdisk, disk0_img, fix_disk_pl,
              qemu_hda, rc>>
cfgvars  == <<build, GDBWAIT, nterms, boots, prev_populated, runvars>>
kvars    == <<kpc, kflow, gdb_wait, bstack>>
bvars    == <<bpc, bootstrap_context>>
ivars    == <<ipc, initthr, child, status, wait_filter, ii, fd>>
nvars    == <<npc, nstatus>>
procvars == <<procs, created, next_pid, kt_state, runq, curproc, curthr>>
fsvars   == <<fs, vn_refcount, vn_refcount0, nfds, mkdirs, mknods>>
vars == <<cfgvars, kvars, bvars, ivars, nvars, procvars, fsvars,
          done, intr, panic, halted, events>>

(* --------------------------- build features ---------------------------- *)
DRIVERS == build >= 1
VFS     == build >= 2
S5FS    == build >= 3
VM      == build >= 4

(* ------------------------------ devices -------------------------------- *)
\* MKDEVID of drivers/dev.h: major/minor pairing
MKDEVID(major, minor) == major * 256 + minor
MEM_NULL_DEVID == MKDEVID(0, 0)
MEM_ZERO_DEVID == MKDEVID(0, 1)

\* a path is a fixed text and a unit number, -1 when the text has no %d
Path(text) == <<text, -1>>
\* sprintf(path, fmt "%d", n)
sprintf(fmt, n) == <<fmt, n>>

Node(path, mode, devid) == [path |-> path, mode |-> mode, devid |-> devid]
DevDir == Node(Path("/dev"), "S_IFDIR", 0)

\* the tty node idleproc_run makes for unit n (line 238)
TtyNode(n) == Node(sprintf("/dev/tty", n), "S_IFCHR", MKDEVID(2, n))
\* the disk node idleproc_run makes for unit n (line 248)
DiskNode(n) == Node(sprintf("/dev/hda", n), "S_IFBLK", MKDEVID(1, n))
NullNode == Node(Path("/dev/null"), "S_IFCHR", MEM_NULL_DEVID)
ZeroNode == Node(Path("/dev/zero"), "S_IFCHR", MEM_ZERO_DEVID)

WellKnownNodes ==
    {NullNode, ZeroNode} \cup {TtyNode(n) : n \in 0..(nterms - 1)}
                         \cup {DiskNode(n) : n \in 0..(NDISKS - 1)}

\* the states a disk can be in when the kernel boots: /dev absent, or /dev
\* present with any of the well-known nodes
DiskStates == {{}} \cup {S \cup {DevDir} : S \in SUBSET WellKnownNodes}

Exists(f, path) == \E n \in f : n.path = path

\* do_stat(path) < 0
StatFails(f, path) == ~Exists(f, path)
\* do_open(path, flags) < 0: the existence check of the population step
OpenFails(f, path) == ~Exists(f, path)
\* do_mkdir / do_mknod can succeed only if the name is free and, for a node
\* under /dev, the directory is there
CanCreate(f, node) ==
    /\ ~Exists(f, node.path)
    /\ (node = DevDir \/ DevDir \in f)

(* --------------------------- processes --------------------------------- *)
NoProc == [state |-> "NONE", comm |-> "", pproc |-> NoPid,
           status |-> 0, cwd |-> "NULL"]

\* proc_create(name): the record of the new process; its parent is curproc
NewProc(name, parent) ==
    [state |-> "LIVE", comm |-> name, pproc |-> parent,
     status |-> 0, cwd |-> "NULL"]

Children(p)  == {c \in Pids : procs[c].state \in {"LIVE", "ZOMBIE"}
                              /\ procs[c].pproc = p}
Matches(filter, c) == filter = -1 \/ filter = c

\* the outcomes of do_waitpid(filter, 0, &status) called by process p
WaitResults(p, filter) ==
    LET cs == {c \in Children(p) : Matches(filter, c)}
        zs == {c \in cs : procs[c].state = "ZOMBIE"}
    IN  IF cs = {} THEN {[kind |-> "error", pid |-> -ECHILD, status |-> 0]}
        ELSE IF zs # {}
             THEN {[kind |-> "reaped", pid |-> c, status |-> procs[c].status]
                   : c \in zs}
             ELSE {[kind |-> "block", pid |-> 0, status |-> 0]}

\* sched_make_runnable(t)
MakeRunnable(kts, rq, t) ==
    [kt |-> [kts EXCEPT ![t] = "RUNNABLE"], rq |-> Append(rq, t)]

\* sched_switch: the head of the run queue, if any, becomes the running
\* thread; kts is the thread table after the caller left the RUNNING state
Switch(kts, rq) ==
    IF rq = <<>>
    THEN [kt |-> kts, rq |-> rq, thr |-> NoPid]
    ELSE [kt |-> [kts EXCEPT ![Head(rq)] = "RUNNING"], rq |-> Tail(rq),
          thr |-> Head(rq)]

\* Running not looking at the panic: a panicked kernel goes on
Running_on(t) == kt_state[t] = "RUNNING" /\ ~halted

Running(t) == kt_state[t] = "RUNNING" /\ panic = "" /\ ~halted

\* KASSERT compiled out: the expression is never checked
KASSERT_off(e, text) == ""

\* KASSERT(e): the kernel panics with the text of e when e is false
KASSERT(e, text) == IF e THEN "" ELSE text

(* ------------------------------- Init ---------------------------------- *)
\* the kernel state when the boot loader calls kmain
BootState ==
    /\ kpc = "hw_init" /\ kflow = "RUNNING" /\ gdb_wait = 0 /\ bstack = "NULL"
    /\ bpc = "none" /\ bootstrap_context = "UNSET"
    /\ ipc = "none" /\ npc = "none"
    /\ done = {}
    /\ procs = [p \in Pids |-> NoProc]
    /\ created = <<>>
    /\ next_pid = 0
    /\ kt_state = [p \in Pids |-> "NONE"]
    /\ runq = <<>>
    /\ curproc = NoPid /\ curthr = NoPid /\ initthr = NoPid
    /\ child = NoPid /\ status = -1 /\ wait_filter = 0 /\ ii = 0 /\ fd = -1
    /\ nstatus = 0
    /\ intr = FALSE /\ panic = "" /\ halted = FALSE
    /\ nfds = [p \in Pids |-> 0]
    /\ mkdirs = 0 /\ mknods = 0
    /\ events = <<>>

\* the run script has started the emulator on a prepared disk image
\* (part_001 line 84) and the emulator runs the kernel
EmulatorStarted ==
    /\ rpc = "qemu" /\ machine = "qemu" /\ dbgmode = "run"
    /\ newdisk = FALSE
    /\ disk0_img = "fixed" /\ fix_disk_pl = TRUE
    /\ qemu_hda = "fixed" /\ rc = -1

KernelInit ==
    /\ build \in Builds
    /\ GDBWAIT \in {0, 1}
    /\ nterms \in (IF DRIVERS THEN 0..NTERMS ELSE {0})
    /\ boots = 1
    /\ prev_populated = FALSE
    /\ fs \in (IF VFS THEN DiskStates ELSE {{}})
    /\ vn_refcount = (IF VFS THEN 1 ELSE 0)
    /\ vn_refcount0 = vn_refcount
    /\ BootState

Init == KernelInit /\ EmulatorStarted

(* ------------------------------- kmain --------------------------------- *)
InKmain(l) == kflow = "RUNNING" /\ kpc = l /\ panic = "" /\ ~halted

\* lines 65-83: debug, page, page table, slab, pframe, acpi, apic, intr, gdt
kmain_hw_init ==
    /\ InKmain("hw_init")
    /\ done' = done \cup {"dbg_init", "page_init", "pt_init", "slab_init",
                           "pframe_init", "acpi_init", "apic_init",
                           "intr_init", "gdt_init"}
    /\ kpc' = "subsys_init"
    /\ UNCHANGED <<cfgvars, kflow, gdb_wait, bstack, bvars, ivars, nvars,
                   procvars, fsvars, intr, panic, halted, events>>

\* kmain_subsys_init leaving out proc_init and kthread_init
kmain_subsys_init_no_proc ==
    /\ InKmain("subsys_init")
    /\ done' = done \cup (IF VM THEN {"anon_init", "shadow_init"} ELSE {})
                    \cup {"vmmap_init"}
    /\ kpc' = IF DRIVERS THEN "driver_init" ELSE "page_alloc"
    /\ UNCHANGED <<cfgvars, kflow, gdb_wait, bstack, bvars, ivars, nvars,
                   procvars, fsvars, intr, panic, halted, events>>

\* lines 85-92
kmain_subsys_init ==
    /\ InKmain("subsys_init")
    /\ done' = done \cup (IF VM THEN {"anon_init", "shadow_init"} ELSE {})
                    \cup {"vmmap_init", "proc_init", "kthread_init"}
    /\ kpc' = IF DRIVERS THEN "driver_init" ELSE "page_alloc"
    /\ UNCHANGED <<cfgvars, kflow, gdb_wait, bstack, bvars, ivars, nvars,
                   procvars, fsvars, intr, panic, halted, events>>

\* lines 94-97
kmain_driver_init ==
    /\ InKmain("driver_init")
    /\ done' = done \cup {"bytedev_init", "blockdev_init"}
    /\ kpc' = "page_alloc"
    /\ UNCHANGED <<cfgvars, kflow, gdb_wait, bstack, bvars, ivars, nvars,
                   procvars, fsvars, intr, panic, halted, events>>

\* lines 99-119: page_alloc may return NULL
kmain_page_alloc ==
    /\ InKmain("page_alloc")
    /\ \E r \in {"page", "NULL"} :
          /\ bstack' = r
          /\ panic' = KASSERT(r # "NULL", "Ran out of memory while booting.")
    /\ gdb_wait' = GDBWAIT
    /\ kpc' = "gdb_wait"
    /\ UNCHANGED <<cfgvars, kflow, bvars, ivars, nvars, procvars, fsvars,
                   done, intr, halted, events>>

\* lines 121-122: while (gdb_wait) ;
kmain_gdb_wait ==
    /\ InKmain("gdb_wait")
    /\ gdb_wait = 0
    /\ kpc' = "context_setup"
    /\ UNCHANGED <<cfgvars, kflow, gdb_wait, bstack, bvars, ivars, nvars,
                   procvars, fsvars, done, intr, panic, halted, events>>

\* lines 110-113: a debugger joins the spinning kernel and clears gdb_wait
gdb_attach ==
    /\ InKmain("gdb_wait")
    /\ gdb_wait # 0
    /\ gdb_wait' = 0
    /\ UNCHANGED <<cfgvars, kpc, kflow, bstack, bvars, ivars, nvars,
                   procvars, fsvars, done, intr, panic, halted, events>>

\* line 123
kmain_context_setup ==
    /\ InKmain("context_setup")
    /\ bootstrap_context' = "READY"
    /\ bpc' = "pt_template_init"
    /\ kpc' = "make_active"
    /\ UNCHANGED <<cfgvars, kflow, gdb_wait, bstack, ivars, nvars,
                   procvars, fsvars, done, intr, panic, halted, events>>

\* kmain_make_active with an activation that comes back to its caller
kmain_make_active_returns ==
    /\ InKmain("make_active")
    /\ bootstrap_context' = "RUNNING"
    /\ kpc' = "returned"
    /\ UNCHANGED <<cfgvars, kflow, gdb_wait, bstack, bpc, ivars, nvars,
                   procvars, fsvars, done, intr, panic, halted, events>>

\* line 124: context_make_active(&bootstrap_context); kmain is left at the
\* statement after the call (line 126)
kmain_make_active ==
    /\ InKmain("make_active")
    /\ kflow' = "ABANDONED"
    /\ bootstrap_context' = "RUNNING"
    /\ kpc' = "returned"
    /\ UNCHANGED <<cfgvars, gdb_wait, bstack, bpc, ivars, nvars,
                   procvars, fsvars, done, intr, panic, halted, events>>

(* ----------------------------- bootstrap ------------------------------- *)
InBootstrap(l) ==
    bootstrap_context = "RUNNING" /\ bpc = l /\ panic = "" /\ ~halted

\* _proc_getid: the next identifier of the PID namespace
proc_getid == next_pid

\* proc_create(name) returning the process with identifier pid
proc_create(name, pid) ==
    /\ procs' = [procs EXCEPT ![pid] = NewProc(name, curproc)]
    /\ created' = Append(created, <<name, pid>>)
    /\ next_pid' = pid + 1

\* line 152
BootstrapPidOk(pid) == PID_IDLE = pid
\* InitprocPidOk comparing with the wrong reserved identifier
InitprocPidOk_idle(pid) == PID_IDLE = pid

\* line 314
InitprocPidOk(pid) == PID_INIT = pid

\* line 146
bootstrap_pt_template_init ==
    /\ InBootstrap("pt_template_init")
    /\ done' = done \cup {"pt_template_init"}
    /\ bpc' = "proc_create"
    /\ UNCHANGED <<cfgvars, kvars, bootstrap_context, ivars, nvars,
                   procvars, fsvars, intr, panic, halted, events>>

\* lines 150-152
bootstrap_proc_create ==
    /\ InBootstrap("proc_create")
    /\ \E ok \in BOOLEAN :
          IF ok
          THEN /\ proc_create("idle", proc_getid)
               /\ curproc' = proc_getid
               /\ panic' = KASSERT(BootstrapPidOk(proc_getid),
                                   "PID_IDLE == curproc->p_pid")
          ELSE /\ curproc' = NoPid
               /\ panic' = "NULL != curproc"
               /\ UNCHANGED <<procs, created, next_pid>>
    /\ bpc' = "kthread_create"
    /\ UNCHANGED <<cfgvars, kvars, bootstrap_context, ivars, nvars,
                   kt_state, runq, curthr, fsvars, done, intr, halted,
                   events>>

\* lines 154-155
bootstrap_kthread_create ==
    /\ InBootstrap("kthread_create")
    /\ \E ok \in BOOLEAN :
          IF ok
          THEN /\ kt_state' = [kt_state EXCEPT ![curproc] = "CREATED"]
               /\ curthr' = curproc
               /\ UNCHANGED panic
          ELSE /\ curthr' = NoPid
               /\ panic' = "NULL != curthr"
               /\ UNCHANGED kt_state
    /\ bpc' = "make_active"
    /\ UNCHANGED <<cfgvars, kvars, bootstrap_context, ivars, nvars,
                   procs, created, next_pid, runq, curproc, fsvars, done,
                   intr, halted, events>>

\* line 158: context_make_active(&curthr->kt_ctx); bootstrap is left at the
\* statement after the call (line 162) and idleproc_run starts
bootstrap_make_active ==
    /\ InBootstrap("make_active")
    /\ bootstrap_context' = "ABANDONED"
    /\ kt_state' = [kt_state EXCEPT ![curthr] = "RUNNING"]
    /\ bpc' = "returned"
    /\ ipc' = "initproc_create"
    /\ UNCHANGED <<cfgvars, kvars, initthr, child, status, wait_filter, ii,
                   fd, nvars, procs, created, next_pid, runq, curproc, curthr,
                   fsvars, done, intr, panic, halted, events>>

(* ---------------------------- idleproc_run ----------------------------- *)
InIdle(l) == Running(PID_IDLE) /\ curthr = PID_IDLE /\ ipc = l

\* where initproc_run starts executing in this build (lines 338, 355, 439)
InitprocEntry ==
    IF VM THEN "open_std" ELSE IF DRIVERS THEN "kshell_create" ELSE "return"

\* line 185 calling initproc_create, lines 310-314
initproc_create_proc ==
    /\ InIdle("initproc_create")
    /\ \E ok \in BOOLEAN :
          IF ok
          THEN /\ proc_create("init", proc_getid)
               /\ panic' = KASSERT(InitprocPidOk(proc_getid),
                                   "PID_INIT == p->p_pid")
          ELSE /\ panic' = "NULL != p"
               /\ UNCHANGED <<procs, created, next_pid>>
    /\ ipc' = "initproc_kthread"
    /\ UNCHANGED <<cfgvars, kvars, bvars, initthr, child, status,
                   wait_filter, ii, fd, nvars, kt_state, runq, curproc,
                   curthr, fsvars, done, intr, halted, events>>

\* kthread_create handing the new thread to the scheduler at once
initproc_create_kthread_queued ==
    /\ InIdle("initproc_kthread")
    /\ LET p == created[Len(created)][2]
       IN \E ok \in BOOLEAN :
          IF ok
          THEN /\ kt_state' = [kt_state EXCEPT ![p] = "RUNNABLE"]
               /\ initthr' = p
               /\ npc' = InitprocEntry
               /\ done' = done \cup {"initproc_create"}
               /\ UNCHANGED panic
          ELSE /\ panic' = "NULL != thr"
               /\ UNCHANGED <<kt_state, initthr, npc, done>>
    /\ ipc' = "init_call_all"
    /\ UNCHANGED <<cfgvars, kvars, bvars, child, status, wait_filter, ii,
                   fd, nstatus, procs, created, next_pid, runq, curproc,
                   curthr, fsvars, intr, halted, events>>

\* lines 316-318 and the assignment to initthr at line 185
initproc_create_kthread ==
    /\ InIdle("initproc_kthread")
    /\ LET p == created[Len(created)][2]
       IN \E ok \in BOOLEAN :
          IF ok
          THEN /\ kt_state' = [kt_state EXCEPT ![p] = "CREATED"]
               /\ initthr' = p
               /\ npc' = InitprocEntry
               /\ done' = done \cup {"initproc_create"}
               /\ UNCHANGED panic
          ELSE /\ panic' = "NULL != thr"
               /\ UNCHANGED <<kt_state, initthr, npc, done>>
    /\ ipc' = "init_call_all"
    /\ UNCHANGED <<cfgvars, kvars, bvars, child, status, wait_filter, ii,
                   fd, nstatus, procs, created, next_pid, runq, curproc,
                   curthr, fsvars, intr, halted, events>>

\* idle_init_call_all with the #ifdef __VFS__ block of lines 197-254 moved
\* behind intr_enable
idle_init_call_all_early_intr ==
    /\ InIdle("init_call_all")
    /\ done' = done \cup {"init_call_all"}
    /\ ipc' = "intr_enable"
    /\ UNCHANGED <<cfgvars, kvars, bvars, initthr, child, status,
                   wait_filter, ii, fd, nvars, procvars, fsvars, intr,
                   panic, halted, events>>

\* lines 187-188
idle_init_call_all ==
    /\ InIdle("init_call_all")
    /\ done' = done \cup {"init_call_all"}
    /\ ipc' = IF VFS THEN "cwd" ELSE "intr_enable"
    /\ UNCHANGED <<cfgvars, kvars, bvars, initthr, child, status,
                   wait_filter, ii, fd, nvars, procvars, fsvars, intr,
                   panic, halted, events>>

\* idle_set_cwd with one vref for the two working directories
idle_set_cwd_one_vref ==
    /\ InIdle("cwd")
    /\ procs' = [procs EXCEPT ![PID_IDLE].cwd = "root",
                              ![PID_INIT].cwd = "root"]
    /\ vn_refcount' = vn_refcount + 1
    /\ done' = done \cup {"cwd"}
    /\ ipc' = "dev_dir"
    /\ UNCHANGED <<cfgvars, kvars, bvars, initthr, child, status,
                   wait_filter, ii, fd, nvars, created, next_pid, kt_state,
                   runq, curproc, curthr, fs, vn_refcount0, nfds, mkdirs,
                   mknods, intr, panic, halted, events>>

\* lines 201-208
idle_set_cwd ==
    /\ InIdle("cwd")
    /\ LET idle == procs[PID_IDLE].state # "NONE"
           init == procs[PID_INIT].state # "NONE"
       IN IF idle /\ init
          THEN /\ procs' = [procs EXCEPT ![PID_IDLE].cwd = "root",
                                         ![PID_INIT].cwd = "root"]
               /\ vn_refcount' = vn_refcount + 2
               /\ done' = done \cup {"cwd"}
               /\ UNCHANGED panic
          ELSE /\ panic' = (IF idle THEN "NULL != init" ELSE "NULL != idle")
               /\ UNCHANGED <<procs, vn_refcount, done>>
    /\ ipc' = "dev_dir"
    /\ UNCHANGED <<cfgvars, kvars, bvars, initthr, child, status,
                   wait_filter, ii, fd, nvars, created, next_pid, kt_state,
                   runq, curproc, curthr, fs, vn_refcount0, nfds, mkdirs,
                   mknods, intr, halted, events>>

\* idle_dev_dir without the do_stat and the do_mkdir of lines 219-221
idle_dev_dir_no_mkdir ==
    /\ InIdle("dev_dir")
    /\ ipc' = "dev_null"
    /\ UNCHANGED <<cfgvars, kvars, bvars, initthr, child, wait_filter, ii,
                   fd, nvars, procvars, fsvars, status, panic, done, intr,
                   halted, events>>

\* lines 219-221
idle_dev_dir ==
    /\ InIdle("dev_dir")
    /\ IF StatFails(fs, Path("/dev"))
       THEN /\ mkdirs' = mkdirs + 1
            /\ \E ok \in BOOLEAN :
                 IF ok /\ CanCreate(fs, DevDir)
                 THEN fs' = fs \cup {DevDir} /\ status' = 0
                      /\ UNCHANGED panic
                 ELSE fs' = fs /\ status' = -1
                      /\ panic' = "!(status = do_mkdir(/dev))"
       ELSE UNCHANGED <<fs, mkdirs, status, panic>>
    /\ ipc' = "dev_null"
    /\ UNCHANGED <<cfgvars, kvars, bvars, initthr, child, wait_filter, ii,
                   fd, nvars, procvars, vn_refcount, vn_refcount0, nfds,
                   mknods, done, intr, halted, events>>

\* OpenOrMknod calling do_mknod without looking at the result of do_open
OpenOrMknod_unchecked(node, text) ==
    /\ fd' = -1
    /\ mknods' = mknods + 1
    /\ \E ok \in BOOLEAN :
         IF ok /\ CanCreate(fs, node)
         THEN fs' = fs \cup {node} /\ UNCHANGED panic
         ELSE fs' = fs /\ panic' = text
    /\ UNCHANGED nfds

\* if ((fd = do_open(path, O_RDONLY)) < 0) KASSERT(!do_mknod(path, ...));
\* taken == the open failed and the mknod branch ran
OpenOrMknod(node, text) ==
    IF OpenFails(fs, node.path)
    THEN /\ fd' = -1
         /\ mknods' = mknods + 1
         /\ \E ok \in BOOLEAN :
              IF ok /\ CanCreate(fs, node)
              THEN fs' = fs \cup {node} /\ UNCHANGED panic
              ELSE fs' = fs /\ panic' = text
         /\ UNCHANGED nfds
    ELSE /\ fd' = nfds[curproc]
         /\ nfds' = [nfds EXCEPT ![curproc] = @ + 1]
         /\ UNCHANGED <<fs, mknods, panic>>

\* do_close forgetting the descriptor without releasing it
CloseFd_leak ==
    /\ fd' = -1
    /\ nfds' = nfds

\* do_close(fd)
CloseFd ==
    /\ fd' = -1
    /\ nfds' = [nfds EXCEPT ![curproc] = @ - 1]

\* lines 222-223
idle_dev_null ==
    /\ InIdle("dev_null")
    /\ OpenOrMknod(NullNode, "!(status = do_mknod(/dev/null))")
    /\ status' = (IF OpenFails(fs, NullNode.path)
                  THEN (IF panic' = "" THEN 0 ELSE -1) ELSE status)
    /\ ipc' = IF OpenFails(fs, NullNode.path) THEN "dev_zero"
              ELSE "dev_null_close"
    /\ UNCHANGED <<cfgvars, kvars, bvars, initthr, child, wait_filter, ii,
                   nvars, procvars, vn_refcount, vn_refcount0, mkdirs, done,
                   intr, halted, events>>

\* line 225
idle_dev_null_close ==
    /\ InIdle("dev_null_close")
    /\ CloseFd
    /\ ipc' = "dev_zero"
    /\ UNCHANGED <<cfgvars, kvars, bvars, initthr, child, status,
                   wait_filter, ii, nvars, procvars, fs, vn_refcount,
                   vn_refcount0, mkdirs, mknods, done, intr, panic, halted,
                   events>>

\* lines 227-228; leaving it, lines 233-234 start the tty loop at ii = 0
idle_dev_zero ==
    /\ InIdle("dev_zero")
    /\ OpenOrMknod(ZeroNode, "!(status = do_mknod(/dev/zero))")
    /\ status' = (IF OpenFails(fs, ZeroNode.path)
                  THEN (IF panic' = "" THEN 0 ELSE -1) ELSE status)
    /\ ipc' = IF OpenFails(fs, ZeroNode.path) THEN "dev_tty"
              ELSE "dev_zero_close"
    /\ ii' = 0
    /\ UNCHANGED <<cfgvars, kvars, bvars, initthr, child, wait_filter,
                   nvars, procvars, vn_refcount, vn_refcount0, mkdirs, done,
                   intr, halted, events>>

\* line 230
idle_dev_zero_close ==
    /\ InIdle("dev_zero_close")
    /\ CloseFd
    /\ ipc' = "dev_tty"
    /\ UNCHANGED <<cfgvars, kvars, bvars, initthr, child, status,
                   wait_filter, ii, nvars, procvars, fs, vn_refcount,
                   vn_refcount0, mkdirs, mknods, done, intr, panic, halted,
                   events>>

\* lines 234-239: the loop test and, inside the loop, the open or mknod
idle_dev_tty ==
    /\ InIdle("dev_tty")
    /\ IF ii < nterms
       THEN /\ OpenOrMknod(TtyNode(ii), "!do_mknod(/dev/tty)")
            /\ IF OpenFails(fs, TtyNode(ii).path)
               THEN ii' = ii + 1 /\ ipc' = "dev_tty"
               ELSE ii' = ii /\ ipc' = "dev_tty_close"
       ELSE /\ ii' = 0
            /\ ipc' = "dev_hda"
            /\ UNCHANGED <<fd, fs, nfds, mknods, panic>>
    /\ UNCHANGED <<cfgvars, kvars, bvars, initthr, child, status,
                   wait_filter, nvars, procvars, vn_refcount, vn_refcount0,
                   mkdirs, done, intr, halted, events>>

\* line 240 and the ii++ of line 234
idle_dev_tty_close ==
    /\ InIdle("dev_tty_close")
    /\ CloseFd
    /\ ii' = ii + 1
    /\ ipc' = "dev_tty"
    /\ UNCHANGED <<cfgvars, kvars, bvars, initthr, child, status,
                   wait_filter, nvars, procvars, fs, vn_refcount,
                   vn_refcount0, mkdirs, mknods, done, intr, panic, halted,
                   events>>

\* lines 244-249
idle_dev_hda ==
    /\ InIdle("dev_hda")
    /\ IF ii < NDISKS
       THEN /\ OpenOrMknod(DiskNode(ii), "!do_mknod(/dev/hda)")
            /\ IF OpenFails(fs, DiskNode(ii).path)
               THEN ii' = ii + 1 /\ ipc' = "dev_hda"
               ELSE ii' = ii /\ ipc' = "dev_hda_close"
            /\ UNCHANGED done
       ELSE /\ ii' = ii
            /\ ipc' = "intr_enable"
            /\ done' = done \cup {"dev"}
            /\ UNCHANGED <<fd, fs, nfds, mknods, panic>>
    /\ UNCHANGED <<cfgvars, kvars, bvars, initthr, child, status,
                   wait_filter, nvars, procvars, vn_refcount, vn_refcount0,
                   mkdirs, intr, halted, events>>

\* line 250 and the ii++ of line 244
idle_dev_hda_close ==
    /\ InIdle("dev_hda_close")
    /\ CloseFd
    /\ ii' = ii + 1
    /\ ipc' = "dev_hda"
    /\ UNCHANGED <<cfgvars, kvars, bvars, initthr, child, status,
                   wait_filter, nvars, procvars, fs, vn_refcount,
                   vn_refcount0, mkdirs, mknods, done, intr, panic, halted,
                   events>>

\* line 258
idle_intr_enable ==
    /\ InIdle("intr_enable")
    /\ intr' = TRUE
    /\ ipc' = "make_runnable"
    /\ UNCHANGED <<cfgvars, kvars, bvars, initthr, child, status,
                   wait_filter, ii, fd, nvars, procvars, fsvars, done,
                   panic, halted, events>>

\* idle_make_runnable starting the init thread at once instead of queueing it
idle_make_runnable_runs ==
    /\ InIdle("make_runnable")
    /\ kt_state' = [kt_state EXCEPT ![initthr] = "RUNNING"]
    /\ ipc' = "waitpid"
    /\ UNCHANGED <<cfgvars, kvars, bvars, initthr, child, status,
                   wait_filter, ii, fd, nvars, procs, created, next_pid,
                   runq, curproc, curthr, fsvars, done, intr, panic, halted,
                   events>>

\* line 261
idle_make_runnable ==
    /\ InIdle("make_runnable")
    /\ LET m == MakeRunnable(kt_state, runq, initthr)
       IN kt_state' = m.kt /\ runq' = m.rq
    /\ ipc' = "waitpid"
    /\ UNCHANGED <<cfgvars, kvars, bvars, initthr, child, status,
                   wait_filter, ii, fd, nvars, procs, created, next_pid,
                   curproc, curthr, fsvars, done, intr, panic, halted,
                   events>>

\* IdleWaitPid naming the init process instead of any child
IdleWaitPid_init_only == PID_INIT

\* the pid argument of the do_waitpid call at line 263
IdleWaitPid == -1

\* do_waitpid's effect on the process table and the scheduler for the
\* outcome r of a call by process p
WaitEffect(p, r) ==
    CASE r.kind = "reaped" ->
           /\ procs' = [procs EXCEPT ![r.pid].state = "REAPED"]
           /\ UNCHANGED <<kt_state, runq, curproc, curthr>>
      [] r.kind = "error" ->
           UNCHANGED <<procs, kt_state, runq, curproc, curthr>>
      [] r.kind = "block" ->
           LET sw == Switch([kt_state EXCEPT ![p] = "BLOCKED"], runq)
           IN /\ kt_state' = sw.kt /\ runq' = sw.rq
              /\ curthr' = sw.thr /\ curproc' = sw.thr
              /\ UNCHANGED procs

\* line 263: the call blocks (idle stays inside do_waitpid and searches
\* again when it next runs) or returns into child and status
idle_waitpid ==
    /\ InIdle("waitpid")
    /\ wait_filter' = IdleWaitPid
    /\ \E r \in WaitResults(curproc, IdleWaitPid) :
          /\ WaitEffect(curproc, r)
          /\ IF r.kind = "block"
             THEN UNCHANGED <<ipc, child, status>>
             ELSE /\ child' = r.pid
                  /\ status' = (IF r.kind = "reaped" THEN r.status
                                ELSE status)
                  /\ ipc' = "assert_child"
    /\ UNCHANGED <<cfgvars, kvars, bvars, initthr, ii, fd, nvars, created,
                   next_pid, fsvars, done, intr, panic, halted, events>>

\* AfterVfs without the pframe_shutdown of lines 286-288
AfterVfs_no_pframe == "halt_msg"

AfterVfs == IF S5FS THEN "pframe_shutdown" ELSE "halt_msg"

\* idle_assert_child comparing child with the idle identifier
idle_assert_child_idle ==
    /\ InIdle("assert_child")
    /\ panic' = KASSERT(PID_IDLE = child, "PID_INIT == child")
    /\ ipc' = IF VFS THEN "vput" ELSE AfterVfs
    /\ UNCHANGED <<cfgvars, kvars, bvars, initthr, child, status,
                   wait_filter, ii, fd, nvars, procvars, fsvars, done, intr,
                   halted, events>>

\* line 264
idle_assert_child ==
    /\ InIdle("assert_child")
    /\ panic' = KASSERT(PID_INIT = child, "PID_INIT == child")
    /\ ipc' = IF VFS THEN "vput" ELSE AfterVfs
    /\ UNCHANGED <<cfgvars, kvars, bvars, initthr, child, status,
                   wait_filter, ii, fd, nvars, procvars, fsvars, done, intr,
                   halted, events>>

\* lines 278-279
idle_vput_cwd ==
    /\ InIdle("vput")
    /\ vn_refcount' = (IF procs[curproc].cwd = "root"
                       THEN vn_refcount - 1 ELSE vn_refcount)
    /\ events' = Append(events, "vput cwd")
    /\ ipc' = "vfs_shutdown"
    /\ UNCHANGED <<cfgvars, kvars, bvars, initthr, child, status,
                   wait_filter, ii, fd, nvars, procvars, fs, vn_refcount0,
                   nfds, mkdirs, mknods, done, intr, panic, halted>>

\* lines 280-281
idle_vfs_shutdown ==
    /\ InIdle("vfs_shutdown")
    /\ \E ok \in BOOLEAN :
          IF ok
          THEN events' = Append(events, "vfs_shutdown") /\ UNCHANGED panic
          ELSE panic' = "vfs shutdown FAILED!!" /\ UNCHANGED events
    /\ ipc' = AfterVfs
    /\ UNCHANGED <<cfgvars, kvars, bvars, initthr, child, status,
                   wait_filter, ii, fd, nvars, procvars, fsvars, done, intr,
                   halted>>

\* line 287
idle_pframe_shutdown ==
    /\ InIdle("pframe_shutdown")
    /\ events' = Append(events, "pframe_shutdown")
    /\ ipc' = "halt_msg"
    /\ UNCHANGED <<cfgvars, kvars, bvars, initthr, child, status,
                   wait_filter, ii, fd, nvars, procvars, fsvars, done, intr,
                   panic, halted>>

\* lines 290-291
idle_halt_msg ==
    /\ InIdle("halt_msg")
    /\ events' = Append(events, "weenix: halted cleanly!")
    /\ ipc' = "hard_shutdown"
    /\ UNCHANGED <<cfgvars, kvars, bvars, initthr, child, status,
                   wait_filter, ii, fd, nvars, procvars, fsvars, done, intr,
                   panic, halted>>

\* line 292 calling hard_shutdown, lines 446-453: the processor stops inside
\* the call, before the return of line 293
hard_shutdown ==
    /\ InIdle("hard_shutdown")
    /\ events' = (IF DRIVERS THEN Append(events, "vt_print_shutdown")
                  ELSE events) \o <<"cli; hlt">>
    /\ intr' = FALSE
    /\ halted' = TRUE
    /\ ipc' = "hlt"
    /\ UNCHANGED <<cfgvars, kvars, bvars, initthr, child, status,
                   wait_filter, ii, fd, nvars, procvars, fsvars, done,
                   panic>>

(* ---------------------------- initproc_run ----------------------------- *)
InInit(l) == Running(PID_INIT) /\ curthr = PID_INIT /\ npc = l

\* do_exit(st) called by the running process p: its working directory is
\* released, it becomes a zombie, a parent blocked in do_waitpid is woken
\* and the processor is handed to the next runnable thread
do_exit(p, st) ==
    LET pp   == procs[p].pproc
        kts  == [kt_state EXCEPT ![p] = "EXITED"]
        wake == pp # NoPid /\ kt_state[pp] = "BLOCKED"
        m    == IF wake THEN MakeRunnable(kts, runq, pp)
                ELSE [kt |-> kts, rq |-> runq]
        sw   == Switch(m.kt, m.rq)
    IN /\ procs' = [procs EXCEPT ![p].state = "ZOMBIE", ![p].status = st,
                                 ![p].cwd = "NULL"]
       /\ vn_refcount' = (IF procs[p].cwd = "root" THEN vn_refcount - 1
                          ELSE vn_refcount)
       /\ kt_state' = sw.kt /\ runq' = sw.rq
       /\ curthr' = sw.thr /\ curproc' = sw.thr

\* lines 343-345: three opens of /dev/tty0 whose results are not looked at
initproc_open_std ==
    /\ InInit("open_std")
    /\ nfds' = [nfds EXCEPT ![curproc] =
                  IF OpenFails(fs, TtyNode(0).path) THEN @ ELSE @ + 3]
    /\ npc' = "execve"
    /\ UNCHANGED <<cfgvars, kvars, bvars, ivars, nstatus, procvars, fs,
                   vn_refcount, vn_refcount0, mkdirs, mknods, done, intr,
                   panic, halted, events>>

\* line 349: kernel_execve enters the user-level init, or comes back
initproc_execve ==
    /\ InInit("execve")
    /\ \E entered \in BOOLEAN :
          npc' = IF entered THEN "user" ELSE "wait_loop"
    /\ UNCHANGED <<cfgvars, kvars, bvars, ivars, nstatus, procvars, fsvars,
                   done, intr, panic, halted, events>>

\* initproc_wait_loop with the ! of the loop condition left out
initproc_wait_loop_no_not ==
    /\ InInit("wait_loop")
    /\ \E r \in WaitResults(curproc, -1) :
          /\ WaitEffect(curproc, r)
          /\ IF r.kind = "block"
             THEN UNCHANGED <<npc, nstatus>>
             ELSE /\ nstatus' = r.pid
                  /\ npc' = IF r.pid # 0 THEN "wait_loop" ELSE "do_exit"
    /\ UNCHANGED <<cfgvars, kvars, bvars, ivars, created, next_pid, fs,
                   vn_refcount, vn_refcount0, nfds, mkdirs, mknods, done,
                   intr, panic, halted, events>>

\* line 351: while (!do_waitpid(-1, 0, &status));
initproc_wait_loop ==
    /\ InInit("wait_loop")
    /\ \E r \in WaitResults(curproc, -1) :
          /\ WaitEffect(curproc, r)
          /\ IF r.kind = "block"
             THEN UNCHANGED <<npc, nstatus>>
             ELSE /\ nstatus' = r.pid
                  /\ npc' = IF r.pid = 0 THEN "wait_loop" ELSE "do_exit"
    /\ UNCHANGED <<cfgvars, kvars, bvars, ivars, created, next_pid, fs,
                   vn_refcount, vn_refcount0, nfds, mkdirs, mknods, done,
                   intr, panic, halted, events>>

\* line 352
initproc_do_exit ==
    /\ InInit("do_exit")
    /\ do_exit(curproc, 0)
    /\ npc' = "exited"
    /\ UNCHANGED <<cfgvars, kvars, bvars, ivars, nstatus, created,
                   next_pid, fs, vn_refcount0, nfds, mkdirs, mknods, done,
                   intr, panic, halted, events>>

\* lines 361-363
initproc_kshell_create ==
    /\ InInit("kshell_create")
    /\ \E ok \in BOOLEAN :
          panic' = IF ok THEN "" ELSE "init: Couldn't create kernel shell"
    /\ npc' = "kshell_test"
    /\ UNCHANGED <<cfgvars, kvars, bvars, ivars, nstatus, procvars, fsvars,
                   done, intr, halted, events>>

\* lines 387-402: the shell commands run by kshell_test
initproc_kshell_test ==
    /\ InInit("kshell_test")
    /\ npc' = "kshell_destroy"
    /\ UNCHANGED <<cfgvars, kvars, bvars, ivars, nstatus, procvars, fsvars,
                   done, intr, panic, halted, events>>

\* line 435
initproc_kshell_destroy ==
    /\ InInit("kshell_destroy")
    /\ npc' = "return"
    /\ UNCHANGED <<cfgvars, kvars, bvars, ivars, nstatus, procvars, fsvars,
                   done, intr, panic, halted, events>>

\* what follows when a thread's entry function returns: a fatal error
\* (the contract of the execution context), or the thread's exit with the
\* returned value (a thread ends when its control flow completes)
EntryReturnOutcomes == {"panic", "exit"}

\* line 439: return NULL
initproc_return ==
    /\ InInit("return")
    /\ \E o \in EntryReturnOutcomes :
          IF o = "exit"
          THEN /\ do_exit(curproc, 0)
               /\ UNCHANGED panic
          ELSE /\ panic' = "entry function returned"
               /\ UNCHANGED <<procs, vn_refcount, kt_state, runq, curproc,
                              curthr>>
    /\ npc' = "returned"
    /\ UNCHANGED <<cfgvars, kvars, bvars, ivars, nstatus, created,
                   next_pid, fs, vn_refcount0, nfds, mkdirs, mknods, done,
                   intr, halted, events>>

(* ------------------------- the user-level init ------------------------- *)
\* fork: a further process, child of init, whose thread is runnable
user_fork ==
    /\ InInit("user")
    /\ next_pid <= MaxPid
    /\ proc_create("child", proc_getid)
    /\ LET m == MakeRunnable(kt_state, runq, proc_getid)
       IN kt_state' = m.kt /\ runq' = m.rq
    /\ UNCHANGED <<cfgvars, kvars, bvars, ivars, nvars, curproc, curthr,
                   fsvars, done, intr, panic, halted, events>>

\* waitpid(-1)
user_waitpid ==
    /\ InInit("user")
    /\ \E r \in WaitResults(curproc, -1) :
          /\ r.kind # "error"
          /\ WaitEffect(curproc, r)
    /\ UNCHANGED <<cfgvars, kvars, bvars, ivars, nvars, created, next_pid,
                   fsvars, done, intr, panic, halted, events>>

\* exit(st)
user_exit ==
    /\ InInit("user")
    /\ \E st \in Statuses : do_exit(curproc, st)
    /\ npc' = "exited"
    /\ UNCHANGED <<cfgvars, kvars, bvars, ivars, nstatus, created,
                   next_pid, fs, vn_refcount0, nfds, mkdirs, mknods, done,
                   intr, panic, halted, events>>

\* a process made by fork runs and exits
child_exit ==
    \E c \in Pids \ {PID_IDLE, PID_INIT} :
        /\ Running(c) /\ curthr = c
        /\ \E st \in Statuses : do_exit(c, st)
        /\ UNCHANGED <<cfgvars, kvars, bvars, ivars, nvars, created,
                       next_pid, fs, vn_refcount0, nfds, mkdirs, mknods,
                       done, intr, panic, halted, events>>

(* ------------------------------ reboot --------------------------------- *)
\* the machine is started again on the same disk after a halt or a panic
reboot ==
    /\ halted \/ panic # ""
    /\ boots < MaxBoots
    /\ boots' = boots + 1
    /\ prev_populated' = ("dev" \in done)
    /\ vn_refcount' = vn_refcount0
    /\ kpc' = "hw_init" /\ kflow' = "RUNNING" /\ gdb_wait' = 0
    /\ bstack' = "NULL"
    /\ bpc' = "none" /\ bootstrap_context' = "UNSET"
    /\ ipc' = "none" /\ npc' = "none"
    /\ done' = {}
    /\ procs' = [p \in Pids |-> NoProc]
    /\ created' = <<>>
    /\ next_pid' = 0
    /\ kt_state' = [p \in Pids |-> "NONE"]
    /\ runq' = <<>>
    /\ curproc' = NoPid /\ curthr' = NoPid /\ initthr' = NoPid
    /\ child' = NoPid /\ status' = -1 /\ wait_filter' = 0 /\ ii' = 0
    /\ fd' = -1 /\ nstatus' = 0
    /\ intr' = FALSE /\ panic' = "" /\ halted' = FALSE
    /\ nfds' = [p \in Pids |-> 0]
    /\ mkdirs' = 0 /\ mknods' = 0
    /\ events' = <<>>
    /\ UNCHANGED <<build, GDBWAIT, nterms, fs, vn_refcount0, runvars>>

(* -------------------------------- Next --------------------------------- *)
Next ==
    \/ kmain_hw_init \/ kmain_subsys_init \/ kmain_driver_init
    \/ kmain_page_alloc \/ kmain_gdb_wait \/ gdb_attach
    \/ kmain_context_setup \/ kmain_make_active
    \/ bootstrap_pt_template_init \/ bootstrap_proc_create
    \/ bootstrap_kthread_create \/ bootstrap_make_active
    \/ initproc_create_proc \/ initproc_create_kthread
    \/ idle_init_call_all \/ idle_set_cwd \/ idle_dev_dir
    \/ idle_dev_null \/ idle_dev_null_close
    \/ idle_dev_zero \/ idle_dev_zero_close
    \/ idle_dev_tty \/ idle_dev_tty_close
    \/ idle_dev_hda \/ idle_dev_hda_close
    \/ idle_intr_enable \/ idle_make_runnable \/ idle_waitpid
    \/ idle_assert_child \/ idle_vput_cwd \/ idle_vfs_shutdown
    \/ idle_pframe_shutdown \/ idle_halt_msg \/ hard_shutdown
    \/ initproc_open_std \/ initproc_execve \/ initproc_wait_loop
    \/ initproc_do_exit \/ initproc_kshell_create \/ initproc_kshell_test
    \/ initproc_kshell_destroy \/ initproc_return
    \/ user_fork \/ user_waitpid \/ user_exit \/ child_exit
    \/ reboot

Spec == Init /\ [][Next]_vars

TypeOK ==
    /\ build \in Builds /\ boots \in 1..MaxBoots
    /\ nterms \in 0..NTERMS
    /\ kt_state \in [Pids -> {"NONE", "CREATED", "RUNNABLE", "RUNNING",
                               "BLOCKED", "EXITED"}]
    /\ vn_refcount \in Nat
    /\ \A p \in Pids : nfds[p] \in Nat

\* the processor keeps executing the running flow of control; the debugger
\* and the restart of the machine are not the kernel's to schedule
Kernel ==
    \/ kmain_hw_init \/ kmain_subsys_init \/ kmain_driver_init
    \/ kmain_page_alloc \/ kmain_gdb_wait
    \/ kmain_context_setup \/ kmain_make_active
    \/ bootstrap_pt_template_init \/ bootstrap_proc_create
    \/ bootstrap_kthread_create \/ bootstrap_make_active
    \/ initproc_create_proc \/ initproc_create_kthread
    \/ idle_init_call_all \/ idle_set_cwd \/ idle_dev_dir
    \/ idle_dev_null \/ idle_dev_null_close
    \/ idle_dev_zero \/ idle_dev_zero_close
    \/ idle_dev_tty \/ idle_dev_tty_close
    \/ idle_dev_hda \/ idle_dev_hda_close
    \/ idle_intr_enable \/ idle_make_runnable \/ idle_waitpid
    \/ idle_assert_child \/ idle_vput_cwd \/ idle_vfs_shutdown
    \/ idle_pframe_shutdown \/ idle_halt_msg \/ hard_shutdown
    \/ initproc_open_std \/ initproc_execve \/ initproc_wait_loop
    \/ initproc_do_exit \/ initproc_kshell_create \/ initproc_kshell_test
    \/ initproc_kshell_destroy \/ initproc_return
    \/ user_fork \/ user_waitpid \/ user_exit \/ child_exit

FairSpec == Init /\ [][Next]_vars /\ WF_vars(Kernel)

(* ======================= properties of the boot ======================== *)

\* idle's do_waitpid call of line 263 has been issued
IdleWaitIssued ==
    \/ kt_state[PID_IDLE] = "BLOCKED"
    \/ ipc \in {"assert_child", "vput", "vfs_shutdown", "pframe_shutdown",
                 "halt_msg", "hard_shutdown", "hlt"}

\* idle's do_waitpid call has returned and its assertion has passed
IdlePastAssert ==
    /\ ipc \in {"vput", "vfs_shutdown", "pframe_shutdown", "halt_msg",
                 "hard_shutdown", "hlt"}
    /\ panic # "PID_INIT == child"

\* C1: whenever interrupts are enabled, the init process and its thread
\* have been created, init_call_all has run and, in a build with a
\* filesystem, the working directories of idle and init have been set and
\* every /dev node is there.
C1_IntrAfterSetup ==
    intr =>
      /\ {"initproc_create", "init_call_all"} \subseteq done
      /\ procs[PID_INIT].state # "NONE"
      /\ kt_state[PID_INIT] # "NONE"
      /\ VFS => /\ {"cwd", "dev"} \subseteq done
                /\ WellKnownNodes \cup {DevDir} \subseteq fs

C1_Witness == intr /\ VFS /\ ipc = "make_runnable"

\* C2 as stated: the wait idle issues names the init process, not any child.
C2_FilterIsInitPid ==
    IdleWaitIssued => (wait_filter = PID_INIT /\ wait_filter # -1)

\* C2 amended: idle's wait is issued after the init thread was handed to
\* the scheduler and uses the wildcard -1; that the child is init is
\* enforced by the assertion behind the call, which idle passes only with
\* child = PID_INIT.
C2_WildcardThenAssert ==
    /\ IdleWaitIssued =>
          /\ wait_filter = -1
          /\ kt_state[PID_INIT] \in {"RUNNABLE", "RUNNING", "BLOCKED",
                                      "EXITED"}
    /\ IdlePastAssert => child = PID_INIT

C2_Witness ==
    kt_state[PID_IDLE] = "BLOCKED" /\ wait_filter = -1 /\ ipc = "waitpid"

ShutdownOrder ==
    (IF VFS THEN <<"vput cwd", "vfs_shutdown">> ELSE <<>>)
    \o (IF S5FS THEN <<"pframe_shutdown">> ELSE <<>>)
    \o <<"weenix: halted cleanly!">>
    \o (IF DRIVERS THEN <<"vt_print_shutdown">> ELSE <<>>)
    \o <<"cli; hlt">>

IsPrefix(a, b) == Len(a) <= Len(b) /\ a = SubSeq(b, 1, Len(a))

\* a step of the kernel, as opposed to a restart of the machine
SameBoot == boots' = boots

C4_OrderInv ==
    /\ IsPrefix(events, ShutdownOrder)
    /\ events # <<>> =>
          /\ procs[PID_INIT].state = "REAPED"
          /\ kt_state[PID_INIT] = "EXITED"
          /\ child = PID_INIT
    /\ halted => (events = ShutdownOrder /\ ~intr)

\* C4: once idle has observed init's exit the shutdown actions happen in
\* the order vput of idle's working directory, vfs_shutdown,
\* pframe_shutdown, halt with interrupts off; none happens before init has
\* exited and been reaped, and after the halt no thread takes a step.
C4_ShutdownOrder ==
    /\ []C4_OrderInv
    /\ [][halted => ~SameBoot]_vars

C4_Witness == halted /\ S5FS /\ Len(events) = 6

\* the counted working-directory references on the root that idle and init
\* hold
HeldCwdRefs ==
    (IF "cwd" \in done /\ ~(\E i \in 1..Len(events) : events[i] = "vput cwd")
     THEN 1 ELSE 0)
    + (IF procs[PID_INIT].cwd = "root" THEN 1 ELSE 0)

\* C5: the root's reference count is its value before the setup plus one
\* for each of idle and init that holds its working directory, so it
\* never drops below that value, and at the halt it is back to it.
C5_RefSymmetry ==
    /\ vn_refcount = vn_refcount0 + HeldCwdRefs
    /\ vn_refcount >= vn_refcount0
    /\ halted => vn_refcount = vn_refcount0

C5_Witness == halted /\ "cwd" \in done /\ vn_refcount = vn_refcount0

\* C6: when the population step has completed, /dev holds exactly one node
\* for each well-known name, with its mode and device identifier, and a
\* boot that follows a completed population step calls neither do_mkdir
\* nor do_mknod.
C6_DevIdempotent ==
    /\ "dev" \in done =>
          /\ fs = WellKnownNodes \cup {DevDir}
          /\ \A n \in WellKnownNodes :
                Cardinality({m \in fs : m.path = n.path}) = 1
          /\ \A n \in 0..(nterms - 1) :
                [path |-> <<"/dev/tty", n>>, mode |-> "S_IFCHR",
                 devid |-> 512 + n] \in fs
          /\ \A n \in 0..(NDISKS - 1) :
                [path |-> <<"/dev/hda", n>>, mode |-> "S_IFBLK",
                 devid |-> 256 + n] \in fs
    /\ prev_populated => (mkdirs = 0 /\ mknods = 0)

C6_Witness ==
    boots = 2 /\ prev_populated /\ "dev" \in done /\ mknods = 0

\* init has exited with status 0
InitExited0 ==
    /\ procs[PID_INIT].state \in {"ZOMBIE", "REAPED"}
    /\ procs[PID_INIT].status = 0

HaltMsgs ==
    Cardinality({i \in 1..Len(events) :
                   events[i] = "weenix: halted cleanly!"})

\* C7 as stated: after init has exited with status 0 no panic occurs.
C7_NoPanicAfterInitExit == InitExited0 => panic = ""

C7_SafetyInv ==
    /\ InitExited0 => panic \in {"", "vfs shutdown FAILED!!"}
    /\ (InitExited0 /\ IdleWaitIssued /\ kt_state[PID_IDLE] # "BLOCKED")
          => (child = PID_INIT /\ status = 0)
    /\ HaltMsgs <= 1
    /\ halted => HaltMsgs = 1

\* C7 amended: if init exits with status 0 then idle's wait returns
\* (PID_INIT, 0) and no panic occurs other than that of a failing
\* vfs_shutdown; unless vfs_shutdown fails the system reaches the halt,
\* having printed the clean-halt message exactly once, and nothing runs
\* after the halt.
C7_BootScenario ==
    /\ []C7_SafetyInv
    /\ \A b \in 1..(MaxBoots + 1) :
          (boots = b /\ InitExited0) ~>
             (boots > b \/ halted \/ panic = "vfs shutdown FAILED!!")
    /\ [][(halted /\ SameBoot) => UNCHANGED vars]_vars

C7_Witness == halted /\ InitExited0 /\ child = PID_INIT /\ status = 0

\* C8: kmain's environment does not run again once it has activated the
\* bootstrap context, and bootstrap does not run again once it has
\* activated the idle thread: each stays parked at the statement behind
\* its activation call and neither panic of lines 126 and 162 happens.
C8_OneWayJumps ==
    /\ [](/\ kpc = "returned" => kflow = "ABANDONED"
          /\ bpc = "returned" => bootstrap_context = "ABANDONED"
          /\ bootstrap_context \in {"RUNNING", "ABANDONED"} =>
                kflow = "ABANDONED"
          /\ panic \notin {"Returned to kmain()!!!",
                            "weenix returned to bootstrap()!!! BAD!!!"})
    /\ [][(kflow = "ABANDONED" /\ SameBoot) =>
            (kflow' = "ABANDONED" /\ kpc' = kpc)]_vars
    /\ [][(bootstrap_context = "ABANDONED" /\ SameBoot) =>
            (bootstrap_context' = "ABANDONED" /\ bpc' = bpc)]_vars

C8_Witness ==
    bpc = "returned" /\ kpc = "returned" /\ kt_state[PID_IDLE] = "RUNNING"

\* the flows of control that are executing
NumRunning ==
    (IF kflow = "RUNNING" THEN 1 ELSE 0)
    + (IF bootstrap_context = "RUNNING" THEN 1 ELSE 0)
    + Cardinality({t \in Pids : kt_state[t] = "RUNNING"})

\* C9: at most one flow of control is executing at any time, and the idle
\* and init threads are never RUNNING together.
C9_SingleActive ==
    /\ NumRunning <= 1
    /\ ~(kt_state[PID_IDLE] = "RUNNING" /\ kt_state[PID_INIT] = "RUNNING")
    /\ \A t \in Pids : kt_state[t] = "RUNNING" => curthr = t

C9_Witness ==
    kt_state[PID_INIT] = "RUNNING" /\ kt_state[PID_IDLE] = "BLOCKED"

\* C10: none of bootstrap, idleproc_run and initproc_run reaches a normal
\* return, and a return from an entry function would be a kernel panic.
C10_NoEntryReturns ==
    /\ bpc # "return" /\ ipc # "return" /\ npc # "return"
    /\ npc = "returned" => panic = "entry function returned"

\* positions of kmain behind the page_alloc of line 99
KmainPastPageAlloc == {"gdb_wait", "context_setup", "make_active", "returned"}
\* positions of bootstrap behind proc_create and behind kthread_create
BootstrapPastProcCreate == {"kthread_create", "make_active", "returned"}
BootstrapPastKthreadCreate == {"make_active", "returned"}
\* positions of initproc_run behind the three do_open of lines 343-345
InitPastOpenStd == {"execve", "user", "wait_loop", "do_exit", "exited"}

\* C11: as long as there is no panic every fallible call made so far has
\* succeeded or has sent its caller down another branch: the boot stack is
\* allocated, the processes and threads in use exist, a completed
\* population step has left every node, init holds the three descriptors
\* it opened on /dev/tty0 once it is past lines 343-345, and the shutdown
\* goes on only behind a successful vfs_shutdown.
C11_NoIgnoredFailure ==
    panic = "" =>
      /\ kpc \in KmainPastPageAlloc => bstack # "NULL"
      /\ bpc \in BootstrapPastProcCreate => curproc # NoPid
      /\ bpc \in BootstrapPastKthreadCreate => kt_state[PID_IDLE] # "NONE"
      /\ "initproc_create" \in done => kt_state[PID_INIT] # "NONE"
      /\ "dev" \in done => WellKnownNodes \cup {DevDir} \subseteq fs
      /\ npc \in InitPastOpenStd => nfds[PID_INIT] = 3
      /\ (VFS /\ ipc \in {"pframe_shutdown", "halt_msg", "hard_shutdown",
                           "hlt"})
            => (\E i \in 1..Len(events) : events[i] = "vfs_shutdown")

\* kmain is in the loop of lines 121-122 with its condition true
GdbSpin == kpc = "gdb_wait" /\ gdb_wait # 0

\* C12 as stated: under fair scheduling kmain, once at the loop of lines
\* 121-122, goes on to set up and activate the bootstrap context.
C12_KmainReachesActivation ==
    \A b \in 1..(MaxBoots + 1) :
        (boots = b /\ kpc = "gdb_wait" /\ panic = "") ~>
            (boots > b \/ kpc \in {"context_setup", "make_active",
                                    "returned"})

\* C12 amended: the only step that spins is the loop of lines 121-122,
\* which spins while gdb_wait is non-zero; everywhere else some kernel step
\* is possible until the halt or a panic.  Once gdb_wait is zero kmain
\* reaches the activation of the bootstrap context.  Init's wait loop is
\* left as soon as do_waitpid returns, with a non-zero result, and init
\* stays in it only by blocking.
C12_NoSpinButGdb ==
    /\ []((panic = "" /\ ~halted /\ ~GdbSpin) => ENABLED Kernel)
    /\ [](npc = "do_exit" => nstatus # 0)
    /\ \A b \in 1..(MaxBoots + 1) :
          (boots = b /\ kpc = "gdb_wait" /\ panic = "" /\ gdb_wait = 0) ~>
              (boots > b \/ kpc = "returned")
    /\ \A b \in 1..(MaxBoots + 1) :
          (boots = b /\ npc = "wait_loop") ~>
              (boots > b \/ npc = "do_exit"
                 \/ kt_state[PID_INIT] = "BLOCKED")
    /\ [][(npc = "wait_loop" /\ npc' = "wait_loop"
             /\ kt_state[PID_INIT] = "RUNNING")
           => kt_state'[PID_INIT] = "BLOCKED"]_vars

C12_Witness ==
    kpc = "returned" /\ GDBWAIT = 1 /\ npc = "do_exit" /\ nstatus = -ECHILD

(* ------------- idleproc_run after do_waitpid returned ------------------- *)
\* do_waitpid is not part of this source.  What idleproc_run does with the
\* value of line 263 is examined for every value the call can hand back: the
\* identifier of a process other than idle, or the no-such-child error.
WaitReturnValues == (Pids \ {PID_IDLE}) \cup {-ECHILD}

\* everything idleproc_run has recorded in done when it reaches line 263
DoneAtWait ==
    {"dbg_init", "page_init", "pt_init", "slab_init", "pframe_init",
     "acpi_init", "apic_init", "intr_init", "gdt_init", "vmmap_init",
     "proc_init", "kthread_init", "pt_template_init", "initproc_create",
     "init_call_all"}
    \cup (IF VM THEN {"anon_init", "shadow_init"} ELSE {})
    \cup (IF DRIVERS THEN {"bytedev_init", "blockdev_init"} ELSE {})
    \cup (IF VFS THEN {"cwd", "dev"} ELSE {})

\* the state of line 264: the boot is over, idle runs, and do_waitpid has
\* stored its result in child
WaitReturned ==
    /\ build \in Builds
    /\ GDBWAIT \in {0, 1}
    /\ nterms \in (IF DRIVERS THEN 0..NTERMS ELSE {0})
    /\ boots = 1 /\ prev_populated = FALSE
    /\ child \in WaitReturnValues
    /\ status \in Statuses
    /\ kpc = "returned" /\ kflow = "ABANDONED" /\ gdb_wait = 0
    /\ bstack = "page"
    /\ bpc = "returned" /\ bootstrap_context = "ABANDONED"
    /\ ipc = "assert_child"
    /\ npc = (IF child = PID_INIT THEN "exited" ELSE "none")
    /\ done = DoneAtWait
    /\ procs = [p \in Pids |->
                  IF p = PID_IDLE
                  THEN [NewProc("idle", NoPid) EXCEPT
                          !.cwd = IF VFS THEN "root" ELSE "NULL"]
                  ELSE IF p = PID_INIT
                  THEN [NewProc("init", PID_IDLE) EXCEPT
                          !.state = IF child = PID_INIT THEN "REAPED"
                                    ELSE "LIVE",
                          !.status = IF child = PID_INIT THEN status ELSE 0,
                          !.cwd = IF VFS /\ child # PID_INIT THEN "root"
                                  ELSE "NULL"]
                  ELSE IF p = child
                  THEN [NewProc("child", PID_IDLE) EXCEPT
                          !.state = "REAPED", !.status = status]
                  ELSE NoProc]
    /\ created = <<<<"idle", PID_IDLE>>, <<"init", PID_INIT>>>>
    /\ next_pid = PID_INIT + 1
    /\ kt_state = [p \in Pids |->
                     IF p = PID_IDLE THEN "RUNNING"
                     ELSE IF p = PID_INIT
                     THEN (IF child = PID_INIT THEN "EXITED" ELSE "CREATED")
                     ELSE "NONE"]
    /\ runq = <<>>
    /\ curproc = PID_IDLE /\ curthr = PID_IDLE /\ initthr = PID_INIT
    /\ wait_filter = IdleWaitPid
    /\ ii = (IF DRIVERS /\ VFS THEN NDISKS ELSE 0) /\ fd = -1
    /\ nstatus = 0
    /\ intr = TRUE /\ panic = "" /\ halted = FALSE
    /\ fs = (IF VFS THEN WellKnownNodes \cup {DevDir} ELSE {})
    /\ vn_refcount0 = (IF VFS THEN 1 ELSE 0)
    /\ vn_refcount = vn_refcount0
                     + Cardinality({p \in Pids : procs[p].cwd = "root"})
    /\ nfds = [p \in Pids |-> 0]
    /\ mkdirs = 0 /\ mknods = 0
    /\ events = <<>>
    /\ EmulatorStarted

\* lines 264-293
Shutdown ==
    \/ idle_assert_child
    \/ idle_vput_cwd
    \/ idle_vfs_shutdown
    \/ idle_pframe_shutdown
    \/ idle_halt_msg
    \/ hard_shutdown

WaitReturnSpec == WaitReturned /\ [][Shutdown]_vars

IdleAtShutdown ==
    {"vput", "vfs_shutdown", "pframe_shutdown", "halt_msg", "hard_shutdown",
     "hlt"}

\* C13: whatever idle's wait hands back, a value other than the init
\* identifier (another process's identifier or the no-such-child error) makes
\* idle fail the assertion of line 264 and no shutdown step is ever taken:
\* the working-directory reference is kept, nothing is logged, the machine
\* is not halted; shutdown steps are seen only where the wait returned
\* PID_INIT.
C13_OnlyInitEndsIdle ==
    /\ (ipc \in IdleAtShutdown /\ child # PID_INIT)
          => /\ panic = "PID_INIT == child"
             /\ ipc = (IF VFS THEN "vput" ELSE AfterVfs)
             /\ events = <<>> /\ ~halted
             /\ vn_refcount = vn_refcount0 + HeldCwdRefs
    /\ (events # <<>> \/ halted) => child = PID_INIT

C13_Witness ==
    /\ ipc \in IdleAtShutdown /\ child \in {-ECHILD, PID_INIT + 1}
    /\ panic = "PID_INIT == child"


\* C14: within a boot, a step that creates or changes a process or a kernel
\* thread is taken only after vmmap_init, proc_init and kthread_init have
\* completed, and in a build with drivers a step that opens or creates a
\* node (or changes the file system or a descriptor table at all) is taken
\* only after bytedev_init and blockdev_init have completed.
C14_InitBeforeUse ==
    [][boots' = boots =>
         /\ (procs' # procs \/ kt_state' # kt_state \/ created' # created)
               => {"vmmap_init", "proc_init", "kthread_init"} \subseteq done
         /\ (DRIVERS /\ (fs' # fs \/ nfds' # nfds \/ fd' # fd
                          \/ mknods' # mknods))
               => {"bytedev_init", "blockdev_init"} \subseteq done]_vars

C14_Witness ==
    /\ DRIVERS /\ mknods > 0 /\ (\E p \in Pids : nfds[p] > 0)
    /\ kt_state[PID_INIT] = "RUNNING"
    /\ {"vmmap_init", "proc_init", "kthread_init", "bytedev_init",
        "blockdev_init"} \subseteq done


IdleBeforeMakeRunnable ==
    {"init_call_all", "cwd", "dev_dir", "dev_null", "dev_null_close",
     "dev_zero", "dev_zero_close", "dev_tty", "dev_tty_close", "dev_hda",
     "dev_hda_close", "intr_enable", "make_runnable"}

\* C15: from its creation until idle's sched_make_runnable the init thread
\* is CREATED (not queued, never run); idle makes it runnable in one step
\* only, line 261, taken once in a boot, with interrupts already enabled, and
\* that step queues the thread without taking the processor from idle.
C15_InitThreadStart ==
    /\ [](((ipc \in IdleBeforeMakeRunnable /\ kt_state[PID_INIT] # "NONE")
             => (/\ kt_state[PID_INIT] = "CREATED"
                 /\ runq = <<>>
                 /\ npc = InitprocEntry))
          /\ (ipc \in {"none", "initproc_create", "initproc_kthread"}
                => kt_state[PID_INIT] = "NONE"))
    /\ [][(kt_state[PID_INIT] = "CREATED" /\ kt_state'[PID_INIT] # "CREATED"
           /\ boots' = boots)
            => /\ ipc = "make_runnable" /\ ipc' = "waitpid"
               /\ intr
               /\ kt_state'[PID_INIT] = "RUNNABLE"
               /\ runq' = <<PID_INIT>>
               /\ curthr' = PID_IDLE /\ curproc' = PID_IDLE
               /\ kt_state'[PID_IDLE] = "RUNNING"]_vars
    /\ [][(kt_state'[PID_INIT] = "CREATED" /\ boots' = boots)
            => kt_state[PID_INIT] \in {"NONE", "CREATED"}]_vars
    /\ [][(ipc # "make_runnable" /\ boots' = boots)
            => ipc' # "make_runnable" \/ ipc = "intr_enable"]_vars

C15_Witness ==
    /\ ipc = "waitpid" /\ kt_state[PID_INIT] = "RUNNABLE"
    /\ kt_state[PID_IDLE] = "RUNNING" /\ curthr = PID_IDLE /\ intr


IdleOpenLabels == {"dev_null", "dev_zero", "dev_tty", "dev_hda"}
IdleCloseLabels ==
    {"dev_null_close", "dev_zero_close", "dev_tty_close", "dev_hda_close"}

\* the node idleproc_run is about to open at lines 222, 227, 237 and 247
NodeAt ==
    CASE ipc = "dev_null" -> NullNode
      [] ipc = "dev_zero" -> ZeroNode
      [] ipc = "dev_tty"  -> TtyNode(ii)
      [] OTHER            -> DiskNode(ii)

\* idleproc_run is at an open of the population step, not at the end of a
\* loop
AtOpen ==
    /\ ipc \in IdleOpenLabels
    /\ ipc = "dev_tty" => ii < nterms
    /\ ipc = "dev_hda" => ii < NDISKS

\* C16: each node of the population step is opened first; do_mknod is
\* called exactly when that open failed, and then no descriptor is taken;
\* a descriptor that the open returned is closed by the next step, before
\* any other open; so idle holds at most that one descriptor during the
\* step and as many descriptors after the step as before it.
C16_OpenElseMknod ==
    /\ [][(AtOpen /\ boots' = boots
           /\ (ipc' # ipc \/ ii' # ii \/ panic' # panic))
            => IF OpenFails(fs, NodeAt.path)
               THEN /\ mknods' = mknods + 1
                    /\ nfds' = nfds /\ fd' = -1
                    /\ ipc' \in IdleOpenLabels
               ELSE /\ mknods' = mknods /\ fs' = fs
                    /\ fd' = nfds[PID_IDLE]
                    /\ nfds' = [nfds EXCEPT ![PID_IDLE] = @ + 1]
                    /\ ipc' \in IdleCloseLabels]_vars
    /\ [][(mknods' # mknods /\ boots' = boots)
            => AtOpen /\ OpenFails(fs, NodeAt.path)]_vars
    /\ [][(ipc \in IdleCloseLabels /\ ipc' # ipc /\ boots' = boots)
            => /\ nfds' = [nfds EXCEPT ![PID_IDLE] = @ - 1]
               /\ fd' = -1]_vars
    /\ [](nfds[PID_IDLE] = (IF ipc \in IdleCloseLabels THEN 1 ELSE 0))
    /\ []((fd # -1) = (ipc \in IdleCloseLabels))

C16_Witness ==
    /\ "dev" \in done /\ nfds[PID_IDLE] = 0
    /\ mknods > 0 /\ mknods < Cardinality(WellKnownNodes)


FatalPanics ==
    {"Ran out of memory while booting.", "NULL != curproc", "NULL != curthr",
     "NULL != p", "NULL != thr", "vfs shutdown FAILED!!"}

Logged(e) == \E i \in 1..Len(events) : events[i] = e

\* C17: a failed page_alloc of the boot stack, a failed creation of the idle
\* or init process or of their threads, and a failed vfs_shutdown each leave
\* the kernel panicked, and a panicked kernel takes no further step of the
\* boot or of the shutdown: nothing changes any more until the machine is
\* restarted, it is never halted, and after a failed vfs_shutdown neither
\* pframe_shutdown nor the halt message nor hard_shutdown is seen.
C17_FatalStops ==
    /\ [][panic # "" => boots' # boots]_vars
    /\ [](panic # "" => ~halted /\ ~Logged("weenix: halted cleanly!"))
    /\ []((kpc \in KmainPastPageAlloc /\ bstack = "NULL")
            => (panic = "Ran out of memory while booting."
                /\ kpc = "gdb_wait" /\ bpc = "none"))
    /\ []((bpc \in BootstrapPastProcCreate /\ procs[PID_IDLE].state = "NONE")
            => (panic = "NULL != curproc" /\ bpc = "kthread_create"))
    /\ []((bpc \in BootstrapPastKthreadCreate /\ kt_state[PID_IDLE] = "NONE")
            => (panic # "" /\ bpc = "make_active" /\ ipc = "none"))
    /\ []((ipc \notin {"none", "initproc_create"}
           /\ procs[PID_INIT].state = "NONE")
            => (panic = "NULL != p" /\ ipc = "initproc_kthread"))
    /\ []((ipc \notin {"none", "initproc_create", "initproc_kthread"}
           /\ kt_state[PID_INIT] = "NONE")
            => (panic = "NULL != thr" /\ ipc = "init_call_all"))
    /\ [](panic = "vfs shutdown FAILED!!"
            => (/\ ipc = AfterVfs
                /\ ~Logged("vfs_shutdown") /\ ~Logged("pframe_shutdown")
                /\ ~Logged("vt_print_shutdown") /\ ~Logged("cli; hlt")))

C17_Witness ==
    /\ panic = "vfs shutdown FAILED!!" /\ Logged("vput cwd")
    /\ boots = MaxBoots


(* ------------------------- the run script ------------------------------ *)
\* src/unnamed/part_001 (the script) and src/unnamed/part_000 (fix_disk.pl).
\* disk0_img is "absent", "copied" (a copy of user/disk0.img that the fix-up
\* has not been applied to) or "fixed" (the fix-up was applied to it).
DiskImages == {"absent", "copied", "fixed"}

\* the script is not running and no kernel runs: the machine is off
RunInit ==
    /\ rpc = "shell" /\ machine = "qemu" /\ dbgmode = "run"
    /\ newdisk = FALSE
    /\ disk0_img \in {"absent", "fixed"}
    /\ fix_disk_pl \in BOOLEAN
    /\ qemu_hda = "none" /\ rc = -1
    /\ build = 0 /\ GDBWAIT = 0 /\ nterms = 0
    /\ boots = 1 /\ prev_populated = FALSE
    /\ fs = {} /\ vn_refcount = 0 /\ vn_refcount0 = 0
    /\ BootState

kernelvars == <<build, GDBWAIT, nterms, boots, prev_populated, kvars, bvars,
                ivars, nvars, procvars, fsvars, done, intr, panic, halted,
                events>>

\* lines 38-57: the options of one invocation
run_getopt ==
    /\ rpc = "shell"
    /\ \E m \in {"qemu", "vbox"}, d \in {"run", "gdb", "trace"},
          n \in BOOLEAN :
          machine' = m /\ dbgmode' = d /\ newdisk' = n
    /\ rpc' = "case_machine"
    /\ rc' = -1
    /\ UNCHANGED <<disk0_img, fix_disk_pl, qemu_hda, kernelvars>>

\* lines 71-73 and 103-108
run_case_machine ==
    /\ rpc = "case_machine"
    /\ IF machine = "qemu"
       THEN /\ rpc' = (IF newdisk \/ disk0_img = "absent"
                       THEN "cp" ELSE "case_dbgmode")
            /\ UNCHANGED rc
       ELSE rpc' = "shell" /\ rc' = 1
    /\ UNCHANGED <<machine, dbgmode, newdisk, disk0_img, fix_disk_pl,
                   qemu_hda, kernelvars>>

\* line 74: cp -f user/disk0.img disk0.img; its exit status is not looked at
run_cp ==
    /\ rpc = "cp"
    /\ \E ok \in BOOLEAN :
          disk0_img' = (IF ok THEN "copied" ELSE disk0_img)
    /\ rpc' = "test_fix_disk"
    /\ UNCHANGED <<machine, dbgmode, newdisk, fix_disk_pl, qemu_hda, rc,
                   kernelvars>>

\* lines 75-78
run_test_fix_disk ==
    /\ rpc = "test_fix_disk"
    /\ IF fix_disk_pl
       THEN rpc' = "perl" /\ UNCHANGED rc
       ELSE rpc' = "shell" /\ rc' = 20
    /\ UNCHANGED <<machine, dbgmode, newdisk, disk0_img, fix_disk_pl,
                   qemu_hda, kernelvars>>

\* part_000 lines 7-13: open, seek and write each succeed or die
fix_disk(img, ok) ==
    IF img # "absent" /\ ok THEN "fixed" ELSE img

\* line 79: perl ./fix_disk.pl; its exit status is not looked at
run_perl ==
    /\ rpc = "perl"
    /\ \E ok \in BOOLEAN : disk0_img' = fix_disk(disk0_img, ok)
    /\ rpc' = "case_dbgmode"
    /\ UNCHANGED <<machine, dbgmode, newdisk, fix_disk_pl, qemu_hda, rc,
                   kernelvars>>

\* lines 82-101
run_case_dbgmode ==
    /\ rpc = "case_dbgmode"
    /\ IF dbgmode \in {"run", "gdb"}
       THEN rpc' = "qemu" /\ qemu_hda' = disk0_img /\ UNCHANGED rc
       ELSE rpc' = "shell" /\ rc' = 1 /\ UNCHANGED qemu_hda
    /\ UNCHANGED <<machine, dbgmode, newdisk, disk0_img, fix_disk_pl,
                   kernelvars>>

\* the emulator (line 84) or gdb (line 93) returns and the script ends
run_qemu_exit ==
    /\ rpc = "qemu"
    /\ rpc' = "shell"
    /\ rc' = 0
    /\ UNCHANGED <<machine, dbgmode, newdisk, disk0_img, fix_disk_pl,
                   qemu_hda, kernelvars>>

\* between two invocations the user puts fix_disk.pl into the directory
\* (as line 76 asks) or takes it away
user_fix_disk_pl ==
    /\ rpc = "shell"
    /\ fix_disk_pl' = ~fix_disk_pl
    /\ UNCHANGED <<rpc, machine, dbgmode, newdisk, disk0_img, qemu_hda, rc,
                   kernelvars>>

RunNext ==
    \/ run_getopt
    \/ run_case_machine
    \/ run_cp
    \/ run_test_fix_disk
    \/ run_perl
    \/ run_case_dbgmode
    \/ run_qemu_exit
    \/ user_fix_disk_pl

RunSpec == RunInit /\ [][RunNext]_vars

RunTypeOK ==
    /\ rpc \in {"shell", "case_machine", "cp", "test_fix_disk", "perl",
                "case_dbgmode", "qemu"}
    /\ disk0_img \in DiskImages
    /\ qemu_hda \in DiskImages \cup {"none"}
    /\ rc \in {-1, 0, 1, 20}

\* C18: over any sequence of invocations of the run script the emulator is
\* never started on a disk0.img that is a copy of user/disk0.img to which
\* the fix-up has not been applied successfully.
C18_NeverBootsUnfixed == qemu_hda # "copied"


BothCwdCounted ==
    /\ procs[PID_IDLE].cwd = "root" /\ procs[PID_INIT].cwd = "root"
    /\ vn_refcount = vn_refcount0 + 2

\* C19: in a build with a file system, when idle makes the init thread
\* runnable the working directories of idle and of init are both the root,
\* each with a reference of its own counted on the root; and as long as the
\* init thread can execute (it is runnable, running or blocked) init's
\* working directory stays set and counted.
C19_CwdBeforeInitRuns ==
    /\ []((VFS /\ kt_state[PID_INIT] \in {"RUNNABLE", "RUNNING", "BLOCKED"})
            => BothCwdCounted)
    /\ []((VFS /\ ipc \in (IdleBeforeMakeRunnable \ {"init_call_all", "cwd"}))
            => ("cwd" \in done /\ BothCwdCounted
                /\ kt_state[PID_INIT] = "CREATED"))
    /\ [][(VFS /\ kt_state[PID_INIT] = "CREATED"
           /\ kt_state'[PID_INIT] # "CREATED" /\ boots' = boots)
            => (BothCwdCounted /\ ipc = "make_runnable")]_vars
    /\ [][(VFS /\ procs[PID_INIT].cwd = "root"
           /\ procs'[PID_INIT].cwd # "root" /\ boots' = boots)
            => kt_state'[PID_INIT] = "EXITED"]_vars

C19_Witness ==
    /\ VFS /\ kt_state[PID_INIT] = "RUNNING" /\ npc # InitprocEntry
    /\ BothCwdCounted


\* C20: /dev is there before any node under it is opened or made: do_mkdir
\* is called at line 220 exactly when the do_stat of line 219 failed, its
\* success is asserted, nothing is made when /dev is already there, and no
\* do_open or do_mknod of the boot comes before this step; every open and
\* mknod of a running kernel finds /dev.
C20_DevDirFirst ==
    /\ [][(ipc = "dev_dir" /\ ipc' # ipc /\ boots' = boots)
            => IF StatFails(fs, Path("/dev"))
               THEN /\ mkdirs' = mkdirs + 1
                    /\ (DevDir \in fs' /\ fs' = fs \cup {DevDir}
                        /\ panic' = "")
                       \/ (fs' = fs
                           /\ panic' = "!(status = do_mkdir(/dev))")
               ELSE mkdirs' = mkdirs /\ fs' = fs /\ panic' = ""]_vars
    /\ [][(mkdirs' # mkdirs /\ boots' = boots) => ipc = "dev_dir"]_vars
    /\ [][((mknods' # mknods \/ fd' # fd \/ nfds' # nfds)
           /\ boots' = boots)
            => (DevDir \in fs /\ ipc \notin {"none", "initproc_create",
                  "initproc_kthread", "init_call_all", "cwd", "dev_dir"})]_vars
    /\ []((ipc \in IdleOpenLabels \cup IdleCloseLabels /\ panic = "")
            => DevDir \in fs)

C20_Witness ==
    /\ mkdirs = 1 /\ DevDir \in fs /\ mknods > 0 /\ "dev" \in done


====
